---------------------------- MODULE Spec2Model ----------------------------
(***************************************************************************)
(* Model of db_op_abstractions: the Postgres handle PGConnCM (pg.py) and   *)
(* the MySQL handle MysqlConnCM (mysql.py).                                *)
(*                                                                         *)
(* A handle is used by one caller at a time, so the model is one process   *)
(* whose position is pc.  The database session behind the handle is the    *)
(* set of committed effects (db), the effects of the open transaction      *)
(* (txn) and, for Postgres, the "transaction aborted" flag described in    *)
(* the class docstring of PGConnCM.                                        *)
(***************************************************************************)
EXTENDS Integers, Sequences, FiniteSets, TLC

\* ------------------------------------------------------------------ bounds
\* longest statement list / row list handed to a PG operation
MaxQ == 3
\* number of distinct effects a valid statement (or row) can have
MaxEff == 2
\* largest chunk_size handed to bulk_insert_chunks
MaxChunk == 3
\* longest list handed to an operation that runs while a generator is alive
MaxBetween == 1
\* longest sequence handed to the chunker on its own
MaxSrc == 5
\* MySQL bulk_insert is given row lists of up to MaxBatches full sub-batches
\* (and the lengths around each multiple of the sub-batch size)
MaxBatches == 2
\* fields, over all its rows, of a row list whose formatting is followed
MaxCells == 3
\* close() calls made on one MySQL handle
MaxCloses == 2

\* ------------------------------------------------------------ input values
\* A statement (or a row of a batch) is known by the effect it has when it
\* executes and by what the driver does with it: "ok", or the exception
\* class it raises (the two except branches of pg.py).
Kinds == {"ok", "ProgrammingError", "Exception"}

Valid == [eff : 1..MaxEff, kind : {"ok"}]

Invalid == [eff : {0}, kind : Kinds \ {"ok"}]

Items == Valid \cup Invalid

RECURSIVE SeqsUpTo(_, _)
SeqsUpTo(S, n) ==
    IF n = 0 THEN {<<>>}
    ELSE LET shorter == SeqsUpTo(S, n - 1)
         IN  shorter \cup {Append(s, x) : s \in {t \in shorter : Len(t) = n - 1}, x \in S}

Lists == SeqsUpTo(Items, MaxQ)

Min(a, b) == IF a < b THEN a ELSE b

Positions(s) == [p \in 1..Len(s) |-> p]

RECURSIVE Sum(_)
Sum(s) == IF s = <<>> THEN 0 ELSE Head(s) + Sum(Tail(s))

RECURSIVE Concat(_)
Concat(ss) == IF ss = <<>> THEN <<>> ELSE Head(ss) \o Concat(Tail(ss))

\* ------------------------------------------------------------------- state
VARIABLES
    db,           \* effects committed in the database (visible to everybody)
    txn,          \* effects of the open transaction: records [pos, eff]
    aborted,      \* PG: a command failed, nothing runs until rollback()
    pc,           \* position of the caller in the operation it runs
    op,           \* the operation called last
    Q,            \* exec_query_list*: the statement list
    i,            \* loop index (1-based) of the running operation
    succ_exec,    \* exec_query_list: statements executed and committed
    src,          \* bulk_insert_chunks: the rows offered
    chunk_size,   \* bulk_insert_chunks: rows per chunk
    num_records,  \* bulk_insert_chunks: bulk_insert's returns so far
    values,       \* bulk_insert: the batch
    valpos,       \* bulk_insert: positions of the batch's rows in the rows offered
    caller,       \* bulk_insert: "top" or "bulk_insert_chunks"
    ret,          \* outcome of the last call: [kind, val]
    logged,       \* log lines of the last call
    db0,          \* history: db when the last call started
    attempted,    \* history: [pos, ok] of every cursor.execute of the last call
    committed,    \* history: positions whose effect the last call committed
    commits,      \* history: connection.commit() calls of the last call
    rollbacks,    \* history: connection.rollback() calls of the last call
    yielded,      \* what a generator has yielded so far (chunks, or select's rows)
    rows,         \* MySQL bulk_insert: the rows offered
    total_count,  \* MySQL bulk_insert: rows formatted so far
    insert_vals,  \* MySQL bulk_insert: rows formatted since the last sub-batch
    insert_queue, \* MySQL bulk_insert: the statements built so far
    engine,       \* the handle's class: "pg" or "mysql"
    session,      \* self.connection / self.myDB: "unset", "open", "closed"
    cursor,       \* self.cursor / self.conn: "unset", "open", "closed"
    admin,        \* PG __init__: the connection to the postgres database
    handle,       \* "none", or "returned" once the constructor has returned
    session_closes, \* history: times the open session was released
    cursor_closes,  \* history: times the open cursor was released
    close_calls,  \* history: close() calls made on the handle
    exists,       \* environment: the target database exists
    create_err,   \* history: outcome of the create-database step
    conn_err,     \* history: outcome of the connect to the target database
    args,         \* the constructor's arguments: [create, port_ok]
    gen,          \* the generator object select_generator returned last
    fmt_rows,     \* MySQL formatting: rows of fields of one sub-batch
    fmt_text      \* MySQL formatting: the VALUES text built from fmt_rows

conn == <<db, txn, aborted>>

eqlVars == <<Q, succ_exec>>

bicVars == <<src, chunk_size, num_records>>

biVars == <<values, valpos, caller>>

hist == <<db0, attempted, committed, commits, rollbacks>>

myVars == <<rows, total_count, insert_vals, insert_queue>>

hVars == <<engine, session, cursor, admin, handle, session_closes, cursor_closes,
           close_calls, exists, create_err, conn_err, args>>

fmtVars == <<fmt_rows, fmt_text>>

vars == <<db, txn, aborted, pc, op, Q, i, succ_exec, src, chunk_size, num_records,
          values, valpos, caller, ret, logged, db0, attempted, committed,
          commits, rollbacks, yielded, rows, total_count, insert_vals,
          insert_queue, engine, session, cursor, admin, handle, session_closes,
          cursor_closes, close_calls, exists, create_err, conn_err, args, gen,
          fmt_rows, fmt_text>>

NoRet == [kind |-> "none", val |-> 0]

Return(v) == [kind |-> "return", val |-> v]

Raise(e) == [kind |-> "raise", val |-> e]

\* ------------------------------------------------- the psycopg2 connection
\* cursor.execute(q) fails when q is invalid, and also when an earlier
\* command failed and rollback() has not been called since.
ExecuteFails(q) == aborted \/ q.kind # "ok"

\* The exception cursor.execute(q) raises: the statement's own, or the
\* driver's "transaction is aborted" error, which is no ProgrammingError.
ErrorOf(q) == IF q.kind # "ok" THEN q.kind ELSE "Exception"

Effects(t) == {r.eff : r \in t}

Poss(t) == {r.pos : r \in t}

\* connection.commit(): the open transaction becomes visible (an aborted
\* one is discarded instead).
connection_commit ==
    /\ db' = IF aborted THEN db ELSE db \cup Effects(txn)
    /\ committed' = IF aborted THEN committed ELSE committed \cup Poss(txn)
    /\ txn' = {}
    /\ aborted' = FALSE
    /\ commits' = commits + 1

\* connection.rollback(): the open transaction is discarded.
connection_rollback ==
    /\ txn' = {}
    /\ aborted' = FALSE
    /\ rollbacks' = rollbacks + 1
    /\ UNCHANGED <<db, committed>>

\* What every call does to the history variables when it starts.
StartCall(name) ==
    /\ op' = name
    /\ db0' = db
    /\ committed' = {}
    /\ commits' = 0
    /\ rollbacks' = 0

\* ------------------------------------------------- PGConnCM.exec_query_list
exec_query_list_call ==
    /\ pc = "idle"
    /\ \E q \in Lists : Q' = q
    /\ StartCall("exec_query_list")
    /\ ret' = NoRet
    /\ logged' = <<>>
    /\ attempted' = <<>>
    /\ i' = 1
    /\ succ_exec' = 0
    /\ pc' = "eql_for"
    /\ UNCHANGED <<conn, bicVars, biVars, yielded, myVars, hVars, gen, fmtVars>>

\* try: self.cursor.execute(q)
exec_query_list_execute ==
    /\ pc = "eql_for"
    /\ i <= Len(Q)
    /\ attempted' = Append(attempted, [pos |-> i, ok |-> ~ExecuteFails(Q[i])])
    /\ IF ExecuteFails(Q[i])
       THEN /\ aborted' = TRUE
            /\ txn' = txn
            /\ pc' = "eql_except"
       ELSE /\ aborted' = aborted
            /\ txn' = txn \cup {[pos |-> i, eff |-> Q[i].eff]}
            /\ pc' = "eql_commit"
    /\ UNCHANGED <<db, op, Q, i, succ_exec, bicVars, biVars, ret, logged, db0,
                   committed, commits, rollbacks, yielded, myVars, hVars, gen, fmtVars>>

\* self.connection.commit(); succ_exec += 1
exec_query_list_commit ==
    /\ pc = "eql_commit"
    /\ connection_commit
    /\ succ_exec' = succ_exec + 1
    /\ i' = i + 1
    /\ pc' = "eql_for"
    /\ UNCHANGED <<op, Q, bicVars, biVars, ret, logged, db0, attempted, rollbacks,
                   yielded, myVars, hVars, gen, fmtVars>>


\* exec_query_list_except with the loop left at the first failure.
exec_query_list_except_halts ==
    /\ pc = "eql_except"
    /\ logged' = Append(logged, <<"error", ErrorOf(Q[i]), i>>)
    /\ connection_rollback
    /\ i' = Len(Q) + 1
    /\ pc' = "eql_for"
    /\ UNCHANGED <<op, Q, succ_exec, bicVars, biVars, ret, db0, attempted, commits,
                   yielded, myVars, hVars, gen, fmtVars>>

\* Either except branch: log the error, self.connection.rollback(), go on
\* with the next statement.
exec_query_list_except ==
    /\ pc = "eql_except"
    /\ logged' = Append(logged, <<"error", ErrorOf(Q[i]), i>>)
    /\ connection_rollback
    /\ i' = i + 1
    /\ pc' = "eql_for"
    /\ UNCHANGED <<op, Q, succ_exec, bicVars, biVars, ret, db0, attempted, commits,
                   yielded, myVars, hVars, gen, fmtVars>>

\* After the loop: report succ_exec out of len(Q); the method returns None.
exec_query_list_return ==
    /\ pc = "eql_for"
    /\ i > Len(Q)
    /\ logged' = Append(logged, <<"info", succ_exec, Len(Q)>>)
    /\ ret' = Return("None")
    /\ pc' = "done"
    /\ UNCHANGED <<conn, op, Q, i, succ_exec, bicVars, biVars, hist, yielded, myVars,
                   hVars, gen, fmtVars>>

\* ------------------------------- PGConnCM.exec_query_list_rollback_on_error
exec_query_list_rollback_on_error_call ==
    /\ pc = "idle"
    /\ \E q \in Lists : Q' = q
    /\ StartCall("exec_query_list_rollback_on_error")
    /\ ret' = NoRet
    /\ logged' = <<>>
    /\ attempted' = <<>>
    /\ i' = 1
    /\ succ_exec' = 0
    /\ pc' = "roe_for"
    /\ UNCHANGED <<conn, bicVars, biVars, yielded, myVars, hVars, gen, fmtVars>>


\* exec_query_list_rollback_on_error_execute with a commit after every
\* statement that executed.
exec_query_list_rollback_on_error_execute_commits ==
    /\ pc = "roe_for"
    /\ i <= Len(Q)
    /\ attempted' = Append(attempted, [pos |-> i, ok |-> ~ExecuteFails(Q[i])])
    /\ IF ExecuteFails(Q[i])
       THEN /\ aborted' = TRUE
            /\ txn' = txn
            /\ i' = i
            /\ pc' = "roe_except"
            /\ UNCHANGED <<db, committed, commits>>
       ELSE /\ aborted' = aborted
            /\ txn' = {}
            /\ db' = db \cup {Q[i].eff}
            /\ committed' = committed \cup {i}
            /\ commits' = commits + 1
            /\ i' = i + 1
            /\ pc' = "roe_for"
    /\ UNCHANGED <<op, Q, succ_exec, bicVars, biVars, ret, logged, db0,
                   rollbacks, yielded, myVars, hVars, gen, fmtVars>>

\* try: self.cursor.execute(q), with no commit
exec_query_list_rollback_on_error_execute ==
    /\ pc = "roe_for"
    /\ i <= Len(Q)
    /\ attempted' = Append(attempted, [pos |-> i, ok |-> ~ExecuteFails(Q[i])])
    /\ IF ExecuteFails(Q[i])
       THEN /\ aborted' = TRUE
            /\ txn' = txn
            /\ i' = i
            /\ pc' = "roe_except"
       ELSE /\ aborted' = aborted
            /\ txn' = txn \cup {[pos |-> i, eff |-> Q[i].eff]}
            /\ i' = i + 1
            /\ pc' = "roe_for"
    /\ UNCHANGED <<db, op, Q, succ_exec, bicVars, biVars, ret, logged, db0,
                   committed, commits, rollbacks, yielded, myVars, hVars, gen, fmtVars>>


\* exec_query_list_rollback_on_error's except branch with the rollback left
\* out: the error is raised with the statements executed so far still pending.
exec_query_list_rollback_on_error_except_no_rollback ==
    /\ pc = "roe_except"
    /\ logged' = Append(logged, <<"error", ErrorOf(Q[i]), i>>)
    /\ ret' = Raise(ErrorOf(Q[i]))
    /\ pc' = "done"
    /\ UNCHANGED <<conn, op, Q, i, succ_exec, bicVars, biVars, hist,
                   yielded, myVars, hVars, gen, fmtVars>>

\* Either except branch: log, self.connection.rollback(), raise msg
exec_query_list_rollback_on_error_except ==
    /\ pc = "roe_except"
    /\ logged' = Append(logged, <<"error", ErrorOf(Q[i]), i>>)
    /\ connection_rollback
    /\ ret' = Raise(ErrorOf(Q[i]))
    /\ pc' = "done"
    /\ UNCHANGED <<op, Q, i, succ_exec, bicVars, biVars, db0, attempted, commits,
                   yielded, myVars, hVars, gen, fmtVars>>

\* After the loop: self.connection.commit(), log
exec_query_list_rollback_on_error_commit ==
    /\ pc = "roe_for"
    /\ i > Len(Q)
    /\ connection_commit
    /\ logged' = Append(logged, <<"info", "all">>)
    /\ ret' = Return("None")
    /\ pc' = "done"
    /\ UNCHANGED <<op, Q, i, succ_exec, bicVars, biVars, db0, attempted, rollbacks,
                   yielded, myVars, hVars, gen, fmtVars>>

\* ------------------------------------------------------------ the chunker
\* Python's src[a:b] and src[a:] (0-based, end-exclusive, clamped).
Slice(s, a, b) == SubSeq(s, a + 1, Min(b, Len(s)))

SliceFrom(s, a) == SubSeq(s, a + 1, Len(s))

\* chunk_count = int(len(src)/chunk_size); 1 if chunk_count == 0
chunk_count(s, c) ==
    LET n == Len(s) \div c
    IN  IF n = 0 THEN 1 ELSE n


\* chunk_at with the last chunk cut at chunk_size like the others.
chunk_at_capped(s, c, k) == Slice(s, k * c, (k + 1) * c)

\* The i-th value (i from 0) the generator chunks(src, chunk_size) yields.
chunk_at(s, c, k) ==
    IF chunk_count(s, c) - 1 > k THEN Slice(s, k * c, (k + 1) * c)
    ELSE SliceFrom(s, k * c)

\* Everything chunks(src, chunk_size) yields, in order.
chunks(s, c) == [k \in 1..chunk_count(s, c) |-> chunk_at(s, c, k - 1)]

\* ----------------------------------------------------- PGConnCM.bulk_insert
\* The batch fails when the driver rejects one of its rows (in mogrify or
\* in execute) or when the transaction is aborted.
BatchFails(v) == aborted \/ \E p \in 1..Len(v) : v[p].kind # "ok"

\* The first exception met while formatting and executing the batch.
BatchError(v) ==
    IF \E p \in 1..Len(v) : v[p].kind # "ok"
    THEN v[CHOOSE p \in 1..Len(v) :
              /\ v[p].kind # "ok"
              /\ \A r \in 1..(p - 1) : v[r].kind = "ok"].kind
    ELSE "Exception"

\* How an outcome of bulk_insert reaches its caller: the direct caller gets
\* it; inside bulk_insert_chunks a return value is collected by the list
\* comprehension and an exception leaves bulk_insert_chunks.
bulk_insert_deliver(r) ==
    IF caller = "top"
    THEN /\ ret' = r
         /\ pc' = "done"
         /\ num_records' = num_records
    ELSE IF r.kind = "return"
    THEN /\ ret' = ret
         /\ pc' = "bic_for"
         /\ num_records' = Append(num_records, r.val)
    ELSE /\ ret' = r
         /\ pc' = "done"
         /\ num_records' = num_records

bulk_insert_call ==
    /\ pc = "idle"
    /\ \E v \in Lists :
          /\ values' = v
          /\ valpos' = Positions(v)
    /\ caller' = "top"
    /\ StartCall("bulk_insert")
    /\ ret' = NoRet
    /\ logged' = <<>>
    /\ attempted' = <<>>
    /\ pc' = "bi_start"
    /\ UNCHANGED <<conn, Q, i, succ_exec, bicVars, yielded, myVars, hVars, gen, fmtVars>>

\* num_fields = len(values[0]), before the try: an empty batch raises
\* IndexError with no rollback.
bulk_insert_start ==
    /\ pc = "bi_start"
    /\ IF values = <<>>
       THEN bulk_insert_deliver(Raise("IndexError"))
       ELSE /\ pc' = "bi_try"
            /\ UNCHANGED <<ret, num_records>>
    /\ UNCHANGED <<conn, op, Q, i, succ_exec, src, chunk_size, biVars, logged,
                   hist, yielded, myVars, hVars, gen, fmtVars>>

\* try: mogrify every row, self.cursor.execute(query)
bulk_insert_execute ==
    /\ pc = "bi_try"
    /\ attempted' = attempted \o
                       [p \in 1..Len(values) |->
                           [pos |-> valpos[p], ok |-> ~BatchFails(values)]]
    /\ IF BatchFails(values)
       THEN /\ aborted' = TRUE
            /\ txn' = txn
            /\ pc' = "bi_except"
       ELSE /\ aborted' = aborted
            /\ txn' = txn \cup {[pos |-> valpos[p], eff |-> values[p].eff] :
                                   p \in 1..Len(values)}
            /\ pc' = "bi_commit"
    /\ UNCHANGED <<db, op, Q, i, succ_exec, bicVars, biVars, ret, logged, db0,
                   committed, commits, rollbacks, yielded, myVars, hVars, gen, fmtVars>>

\* self.connection.commit(); return len(values)
bulk_insert_commit ==
    /\ pc = "bi_commit"
    /\ connection_commit
    /\ bulk_insert_deliver(Return(Len(values)))
    /\ UNCHANGED <<op, Q, i, succ_exec, src, chunk_size, biVars, logged, db0,
                   attempted, rollbacks, yielded, myVars, hVars, gen, fmtVars>>


\* bulk_insert_except with the rollback left out: the error is raised with
\* the failed transaction still open.
bulk_insert_except_no_rollback ==
    /\ pc = "bi_except"
    /\ logged' = Append(logged, <<"error", BatchError(values)>>)
    /\ bulk_insert_deliver(Raise(BatchError(values)))
    /\ UNCHANGED <<conn, op, Q, i, succ_exec, src, chunk_size, biVars, hist, yielded, myVars,
                   hVars, gen, fmtVars>>

\* Either except branch: log, self.connection.rollback(), raise e
bulk_insert_except ==
    /\ pc = "bi_except"
    /\ logged' = Append(logged, <<"error", BatchError(values)>>)
    /\ connection_rollback
    /\ bulk_insert_deliver(Raise(BatchError(values)))
    /\ UNCHANGED <<op, Q, i, succ_exec, src, chunk_size, biVars, db0, attempted,
                   commits, yielded, myVars, hVars, gen, fmtVars>>

\* ---------------------------------------------- PGConnCM.bulk_insert_chunks
bulk_insert_chunks_call ==
    /\ pc = "idle"
    /\ \E v \in Lists : src' = v
    /\ \E c \in 1..MaxChunk : chunk_size' = c
    /\ StartCall("bulk_insert_chunks")
    /\ ret' = NoRet
    /\ attempted' = <<>>
    /\ logged' = <<<<"info", "Insert", Len(src'), chunk_size'>>>>
    /\ num_records' = <<>>
    /\ i' = 0
    /\ pc' = "bic_for"
    /\ UNCHANGED <<conn, Q, succ_exec, biVars, yielded, myVars, hVars, gen, fmtVars>>

\* The list comprehension takes the next chunk and calls bulk_insert on it.
bulk_insert_chunks_next ==
    /\ pc = "bic_for"
    /\ i < chunk_count(src, chunk_size)
    /\ values' = chunk_at(src, chunk_size, i)
    /\ valpos' = chunk_at(Positions(src), chunk_size, i)
    /\ caller' = "bulk_insert_chunks"
    /\ i' = i + 1
    /\ pc' = "bi_start"
    /\ UNCHANGED <<conn, op, Q, succ_exec, bicVars, ret, logged, hist, yielded, myVars,
                   hVars, gen, fmtVars>>


\* bulk_insert_chunks_return with len(num_records) in place of
\* sum(num_records).
bulk_insert_chunks_return_len ==
    /\ pc = "bic_for"
    /\ i >= chunk_count(src, chunk_size)
    /\ logged' = Append(logged, <<"info", "Done", Len(num_records)>>)
    /\ ret' = Return(Len(num_records))
    /\ pc' = "done"
    /\ UNCHANGED <<conn, op, Q, i, succ_exec, bicVars, biVars, hist, yielded, myVars,
                   hVars, gen, fmtVars>>

\* The chunks are used up: log and return sum(num_records).
bulk_insert_chunks_return ==
    /\ pc = "bic_for"
    /\ i >= chunk_count(src, chunk_size)
    /\ logged' = Append(logged, <<"info", "Done", Sum(num_records)>>)
    /\ ret' = Return(Sum(num_records))
    /\ pc' = "done"
    /\ UNCHANGED <<conn, op, Q, i, succ_exec, bicVars, biVars, hist, yielded, myVars,
                   hVars, gen, fmtVars>>

\* ------------------------------------------------ PGConnCM.select_generator
\* The generator run to its end: cursor.execute and fetchall with no commit
\* and no rollback; any exception is logged and the generator ends.
select_generator ==
    /\ pc = "idle"
    /\ StartCall("select_generator")
    /\ \E q \in Items :
          /\ attempted' = <<[pos |-> 1, ok |-> ~ExecuteFails(q)]>>
          /\ aborted' = ExecuteFails(q)
          /\ logged' = IF ExecuteFails(q) THEN <<<<"error", ErrorOf(q), 1>>>> ELSE <<>>
    /\ ret' = Return("rows")
    /\ pc' = "done"
    /\ UNCHANGED <<db, txn, Q, i, succ_exec, bicVars, biVars, yielded, myVars,
                   hVars, gen, fmtVars>>

\* ------------------------------------------------------------- the caller
\* The caller has the outcome of its call and goes on to the next one.
caller_continue ==
    /\ pc = "done"
    /\ pc' = "idle"
    /\ op' = "none"
    /\ Q' = <<>>
    /\ i' = 1
    /\ succ_exec' = 0
    /\ src' = <<>>
    /\ chunk_size' = 1
    /\ num_records' = <<>>
    /\ values' = <<>>
    /\ valpos' = <<>>
    /\ caller' = "top"
    /\ ret' = NoRet
    /\ logged' = <<>>
    /\ db0' = db
    /\ attempted' = <<>>
    /\ committed' = {}
    /\ commits' = 0
    /\ rollbacks' = 0
    /\ UNCHANGED <<conn, yielded, myVars, hVars, gen, fmtVars>>

\* ---------------------------------------------------------- specification
\* A handle that __init__ returned after a successful connect.
InitHandle(e) ==
    /\ engine = e
    /\ session = "open"
    /\ cursor = "open"
    /\ admin = "unset"
    /\ handle = "returned"
    /\ session_closes = 0
    /\ cursor_closes = 0
    /\ close_calls = 0
    /\ exists = TRUE
    /\ create_err = "none"
    /\ conn_err = "ok"
    /\ args = [create |-> FALSE, port_ok |-> TRUE]

NoGen == [st |-> "none", q |-> [eff |-> 0, kind |-> "ok"], at_call |-> {},
          fails_at_call |-> FALSE, execs |-> 0, at_exec |-> {}, failed |-> FALSE,
          data |-> <<>>, logged |-> "none", raised |-> "none"]

\* No call is running and none has been made.
InitCall ==
    /\ db = {}
    /\ txn = {}
    /\ aborted = FALSE
    /\ pc = "idle"
    /\ op = "none"
    /\ Q = <<>>
    /\ i = 1
    /\ succ_exec = 0
    /\ src = <<>>
    /\ chunk_size = 1
    /\ num_records = <<>>
    /\ values = <<>>
    /\ valpos = <<>>
    /\ caller = "top"
    /\ ret = NoRet
    /\ logged = <<>>
    /\ db0 = {}
    /\ attempted = <<>>
    /\ committed = {}
    /\ commits = 0
    /\ rollbacks = 0
    /\ yielded = <<>>
    /\ rows = <<>>
    /\ total_count = 0
    /\ insert_vals = <<>>
    /\ insert_queue = <<>>
    /\ gen = NoGen
    /\ fmt_rows = <<>>
    /\ fmt_text = <<>>

Init == InitCall /\ InitHandle("pg")

Next ==
    \/ exec_query_list_call
    \/ exec_query_list_execute
    \/ exec_query_list_commit
    \/ exec_query_list_except
    \/ exec_query_list_return
    \/ exec_query_list_rollback_on_error_call
    \/ exec_query_list_rollback_on_error_execute
    \/ exec_query_list_rollback_on_error_except
    \/ exec_query_list_rollback_on_error_commit
    \/ bulk_insert_call
    \/ bulk_insert_start
    \/ bulk_insert_execute
    \/ bulk_insert_commit
    \/ bulk_insert_except
    \/ bulk_insert_chunks_call
    \/ bulk_insert_chunks_next
    \/ bulk_insert_chunks_return
    \/ select_generator
    \/ caller_continue

Spec == Init /\ [][Next]_vars


\* -------------------------------------------------- the chunker on its own
\* The generator chunks(src, chunk_size) consumed to its end, one yield at a
\* time, for every sequence of up to MaxSrc rows.
chunks_yield ==
    /\ pc = "chunks"
    /\ i < chunk_count(src, chunk_size)
    /\ yielded' = Append(yielded, chunk_at(src, chunk_size, i))
    /\ i' = i + 1
    /\ UNCHANGED <<conn, pc, op, Q, succ_exec, bicVars, biVars, ret, logged, hist,
                   myVars, hVars, gen, fmtVars>>

\* range(0, chunk_count) is used up: the generator ends.
chunks_end ==
    /\ pc = "chunks"
    /\ i >= chunk_count(src, chunk_size)
    /\ pc' = "chunks_end"
    /\ UNCHANGED <<conn, op, Q, i, succ_exec, bicVars, biVars, ret, logged, hist,
                   yielded, myVars, hVars, gen, fmtVars>>

InitChunks ==
    /\ db = {}
    /\ txn = {}
    /\ aborted = FALSE
    /\ pc = "chunks"
    /\ op = "chunks"
    /\ Q = <<>>
    /\ i = 0
    /\ succ_exec = 0
    /\ src \in SeqsUpTo(Items, MaxSrc)
    /\ chunk_size \in 1..MaxChunk
    /\ num_records = <<>>
    /\ values = <<>>
    /\ valpos = <<>>
    /\ caller = "top"
    /\ ret = NoRet
    /\ logged = <<>>
    /\ db0 = {}
    /\ attempted = <<>>
    /\ committed = {}
    /\ commits = 0
    /\ rollbacks = 0
    /\ yielded = <<>>
    /\ rows = <<>>
    /\ total_count = 0
    /\ insert_vals = <<>>
    /\ insert_queue = <<>>
    /\ gen = NoGen
    /\ fmt_rows = <<>>
    /\ fmt_text = <<>>
    /\ InitHandle("pg")

NextChunks ==
    \/ chunks_yield
    \/ chunks_end

SpecChunks == InitChunks /\ [][NextChunks]_vars

\* ------------------------------------------------------------ MysqlConnCM
\* The literal 10000 of bulk_insert: rows per INSERT statement.
sub_batch_rows == 10000

\* Row lists handed to MySQL bulk_insert: n rows known by their position; the
\* row at position b (if any) is one the server rejects, written -b.
MyRows(n, b) == [p \in 1..n |-> IF p = b THEN 0 - p ELSE p]

MyRowCounts ==
    {n \in {k * sub_batch_rows + d : k \in 0..MaxBatches,
                                     d \in {0 - 1, 0, 1, sub_batch_rows \div 2}} :
        n >= 0}

MyRowLists == UNION {{MyRows(n, b) : b \in {0, 1, n}} : n \in MyRowCounts}

\* A statement is known by the rows of its VALUES list.  Statement lists
\* handed to exec_query_list directly: one-row statements.
MyStatements == {<<e>> : e \in 1..MaxEff} \cup {<<0 - 1>>}

MyLists == SeqsUpTo(MyStatements, MaxQ)

\* conn.execute(q) raises MySQLdb.Error when the server rejects a row of q.
MyExecuteFails(q) == \E p \in 1..Len(q) : q[p] < 0


\* flush_at without "or total_count == len(rows)".
flush_at_full_only(t, n) == t % sub_batch_rows = 0

\* if total_count % 10000 == 0 or total_count == len(rows)
flush_at(t, n) == t % sub_batch_rows = 0 \/ t = n

\* The values of total_count after t at which the loop over rows appends a
\* statement to insert_queue.
FlushPoints(t, n) == {u \in (t + 1)..n : flush_at(u, n)}

NextFlush(t, n) == CHOOSE u \in FlushPoints(t, n) : \A w \in FlushPoints(t, n) : u <= w

mysql_bulk_insert_call ==
    /\ pc = "idle"
    /\ \E r \in MyRowLists : rows' = r
    /\ StartCall("mysql_bulk_insert")
    /\ ret' = NoRet
    /\ logged' = <<>>
    /\ attempted' = <<>>
    /\ insert_queue' = <<>>
    /\ insert_vals' = <<>>
    /\ total_count' = 0
    /\ pc' = "my_rows"
    /\ UNCHANGED <<conn, Q, i, succ_exec, bicVars, biVars, yielded, hVars, gen, fmtVars>>

\* The iterations of "for i in range(0, len(rows))" up to and including the
\* next one that appends a statement: every row since the last statement is
\* formatted into insert_vals, the statement is queued, insert_vals is reset.
mysql_bulk_insert_flush ==
    /\ pc = "my_rows"
    /\ FlushPoints(total_count, Len(rows)) # {}
    /\ LET t == NextFlush(total_count, Len(rows))
       IN  /\ insert_queue' = Append(insert_queue,
                                     insert_vals \o SubSeq(rows, total_count + 1, t))
           /\ total_count' = t
    /\ insert_vals' = <<>>
    /\ UNCHANGED <<conn, pc, op, Q, i, succ_exec, bicVars, biVars, ret, logged,
                   hist, yielded, rows, hVars, gen, fmtVars>>

\* The remaining iterations (none of them appends a statement), then
\* self.exec_query_list(insert_queue).
mysql_bulk_insert_exec ==
    /\ pc = "my_rows"
    /\ FlushPoints(total_count, Len(rows)) = {}
    /\ insert_vals' = insert_vals \o SubSeq(rows, total_count + 1, Len(rows))
    /\ total_count' = Len(rows)
    /\ Q' = insert_queue
    /\ i' = 1
    /\ pc' = "my_for"
    /\ UNCHANGED <<conn, op, succ_exec, bicVars, biVars, ret, logged, hist,
                   yielded, rows, insert_queue, hVars, gen, fmtVars>>

mysql_exec_query_list_call ==
    /\ pc = "idle"
    /\ \E q \in MyLists : Q' = q
    /\ StartCall("mysql_exec_query_list")
    /\ ret' = NoRet
    /\ logged' = <<>>
    /\ attempted' = <<>>
    /\ i' = 1
    /\ pc' = "my_for"
    /\ UNCHANGED <<conn, succ_exec, bicVars, biVars, yielded, myVars, hVars, gen, fmtVars>>

\* mysql_exec_query_list_execute with the loop left at the first error.
mysql_exec_query_list_execute_halts ==
    /\ pc = "my_for"
    /\ i <= Len(Q)
    /\ attempted' = Append(attempted, [pos |-> i, ok |-> ~MyExecuteFails(Q[i])])
    /\ IF MyExecuteFails(Q[i])
       THEN /\ logged' = Append(logged, <<"error", "MySQLdb.Error", i>>)
            /\ txn' = txn
            /\ i' = Len(Q) + 1
       ELSE /\ logged' = logged
            /\ txn' = txn \cup {[pos |-> i, eff |-> Q[i]]}
            /\ i' = i + 1
    /\ UNCHANGED <<db, aborted, pc, op, Q, succ_exec, bicVars, biVars, ret, db0,
                   committed, commits, rollbacks, yielded, myVars, hVars, gen, fmtVars>>

\* try: self.conn.execute(q) / except MySQLdb.Error: print; next statement.
\* A failed statement leaves the MySQL transaction open and usable.
mysql_exec_query_list_execute ==
    /\ pc = "my_for"
    /\ i <= Len(Q)
    /\ attempted' = Append(attempted, [pos |-> i, ok |-> ~MyExecuteFails(Q[i])])
    /\ IF MyExecuteFails(Q[i])
       THEN /\ logged' = Append(logged, <<"error", "MySQLdb.Error", i>>)
            /\ txn' = txn
       ELSE /\ logged' = logged
            /\ txn' = txn \cup {[pos |-> i, eff |-> Q[i]]}
    /\ i' = i + 1
    /\ UNCHANGED <<db, aborted, pc, op, Q, succ_exec, bicVars, biVars, ret, db0,
                   committed, commits, rollbacks, yielded, myVars, hVars, gen, fmtVars>>

\* After the loop: self.myDB.commit()
mysql_exec_query_list_commit ==
    /\ pc = "my_for"
    /\ i > Len(Q)
    /\ db' = db \cup Effects(txn)
    /\ committed' = committed \cup Poss(txn)
    /\ txn' = {}
    /\ commits' = commits + 1
    /\ ret' = Return("None")
    /\ pc' = "done"
    /\ UNCHANGED <<aborted, op, Q, i, succ_exec, bicVars, biVars, logged, db0,
                   attempted, rollbacks, yielded, myVars, hVars, gen, fmtVars>>

NextMy ==
    \/ mysql_bulk_insert_call
    \/ mysql_bulk_insert_flush
    \/ mysql_bulk_insert_exec
    \/ mysql_exec_query_list_call
    \/ mysql_exec_query_list_execute
    \/ mysql_exec_query_list_commit

InitMy == InitCall /\ InitHandle("mysql")

SpecMy == InitMy /\ [][NextMy]_vars



\* ---------------------------------- MysqlConnCM.bulk_insert: the VALUES text
\* A text is a sequence of characters.  A field of a row is None, a str or
\* an int: [t, v] with v the characters of a str and the digits of an int.
None == [t |-> "none", v |-> <<>>]

Str(v) == [t |-> "str", v |-> v]

Num(v) == [t |-> "int", v |-> v]

\* The field values followed: None, the empty string, the text None, a
\* plain text, a text ending in 'None after a quote, a blank, and a number.
FieldValues ==
    {None, Str(<<>>), Str(<<"N", "o", "n", "e">>), Str(<<"a">>),
     Str(<<"'", "N", "o", "n", "e">>), Str(<<" ">>), Num(<<"0">>)}

\* The ways to cut a sequence of fields into consecutive non-empty rows.
RECURSIVE Splits(_)
Splits(s) ==
    IF s = <<>> THEN {<<>>}
    ELSE UNION {{<<SubSeq(s, 1, k)>> \o rest : rest \in Splits(SubSeq(s, k + 1, Len(s)))} :
                k \in 1..Len(s)}

\* The row lists of one sub-batch: at least one row, MaxCells fields at most.
RowLists == UNION {Splits(s) : s \in SeqsUpTo(FieldValues, MaxCells) \ {<<>>}}

\* pymysql.converters.escape_string: a backslash before every quote and
\* every backslash.
RECURSIVE escape_string(_)
escape_string(s) ==
    IF s = <<>> THEN <<>>
    ELSE (IF Head(s) \in {"'", "\\"} THEN <<"\\", Head(s)>> ELSE <<Head(s)>>)
         \o escape_string(Tail(s))

\* str.strip(): leading and trailing blanks removed.
RECURSIVE strip(_)
strip(s) ==
    IF s = <<>> THEN <<>>
    ELSE IF Head(s) = " " THEN strip(Tail(s))
    ELSE IF s[Len(s)] = " " THEN strip(SubSeq(s, 1, Len(s) - 1))
    ELSE s

\* return escape_string(stmt).strip() if stmt else None
escape(stmt) == IF stmt # <<>> THEN Str(strip(escape_string(stmt))) ELSE None

\* "{0}".format(k)
format(k) == IF k.t = "none" THEN <<"N", "o", "n", "e">> ELSE k.v

\* format_field with the quotes left out: "{0}".format(k).
format_field_unquoted(j) == format(IF j.t = "str" THEN escape(j.v) ELSE j)

\* "'{0}'".format(k) for k = self.escape(j) if type(j) == str else j
format_field(j) == <<"'">> \o format(IF j.t = "str" THEN escape(j.v) ELSE j) \o <<"'">>

\* sep.join(texts)
RECURSIVE join(_, _)
join(sep, texts) ==
    IF texts = <<>> THEN <<>>
    ELSE IF Len(texts) = 1 THEN texts[1]
    ELSE texts[1] \o sep \o join(sep, Tail(texts))

\* "(" + ",".join([...]) + "),"
format_row(row) ==
    <<"(">> \o join(<<",">>, [c \in 1..Len(row) |-> format_field(row[c])]) \o <<")", ",">>

\* str.replace(old, new): the occurrences of old from the left, not overlapping.
RECURSIVE replace(_, _, _)
replace(s, old, new) ==
    IF Len(s) < Len(old) THEN s
    ELSE IF SubSeq(s, 1, Len(old)) = old
         THEN new \o replace(SubSeq(s, Len(old) + 1, Len(s)), old, new)
         ELSE <<Head(s)>> \o replace(Tail(s), old, new)

QuotedNone == <<"'", "N", "o", "n", "e", "'">>

NULL == <<"N", "U", "L", "L">>

\* insert_vals[0:-1].replace("'None'","NULL")
values_text(t) == replace(SubSeq(t, 1, Len(t) - 1), QuotedNone, NULL)

\* One iteration of the loop over rows: the row is formatted onto
\* insert_vals; on the last row the statement's VALUES text is made of it.
mysql_bulk_insert_format ==
    /\ pc = "fmt"
    /\ i <= Len(fmt_rows)
    /\ LET t == fmt_text \o format_row(fmt_rows[i])
       IN  IF i = Len(fmt_rows)
           THEN /\ fmt_text' = values_text(t)
                /\ pc' = "fmt_done"
           ELSE /\ fmt_text' = t
                /\ pc' = pc
    /\ i' = i + 1
    /\ UNCHANGED <<conn, op, Q, succ_exec, bicVars, biVars, ret, logged, hist, yielded,
                   myVars, hVars, gen, fmt_rows>>

InitRender ==
    /\ db = {}
    /\ txn = {}
    /\ aborted = FALSE
    /\ pc = "fmt"
    /\ op = "mysql_bulk_insert"
    /\ Q = <<>>
    /\ i = 1
    /\ succ_exec = 0
    /\ src = <<>>
    /\ chunk_size = 1
    /\ num_records = <<>>
    /\ values = <<>>
    /\ valpos = <<>>
    /\ caller = "top"
    /\ ret = NoRet
    /\ logged = <<>>
    /\ db0 = {}
    /\ attempted = <<>>
    /\ committed = {}
    /\ commits = 0
    /\ rollbacks = 0
    /\ yielded = <<>>
    /\ rows = <<>>
    /\ total_count = 0
    /\ insert_vals = <<>>
    /\ insert_queue = <<>>
    /\ gen = NoGen
    /\ fmt_rows \in RowLists
    /\ fmt_text = <<>>
    /\ InitHandle("mysql")

NextRender == mysql_bulk_insert_format

SpecRender == InitRender /\ [][NextRender]_vars

\* ------------------------------------------------- opening and closing
\* Everything a constructor, __enter__, __exit__ or close() leaves alone.
workVars == <<conn, Q, i, succ_exec, bicVars, biVars, hist, yielded, myVars, gen,
              fmtVars>>

\* The psycopg2 errors that are instances of psycopg2.ProgrammingError.
ProgrammingErrors == {"DuplicateDatabase", "InsufficientPrivilege", "SyntaxError"}

\* What cur.execute('CREATE DATABASE ' + database) can do.
CreateOutcomes ==
    IF exists THEN ProgrammingErrors
    ELSE {"ok", "InsufficientPrivilege", "SyntaxError", "OperationalError"}

\* What psycopg2.connect(database=database, ...) can do.
ConnectOutcomes == IF exists THEN {"ok", "OperationalError"} ELSE {"OperationalError"}

\* PGConnCM(database, user, password, host, port, create_database_on_init)
pg_init_call ==
    /\ pc = "unopened"
    /\ \E c \in BOOLEAN, p \in BOOLEAN : args' = [create |-> c, port_ok |-> p]
    /\ engine' = "pg"
    /\ op' = "PGConnCM"
    /\ pc' = IF args'.create THEN "pg_init_admin" ELSE "pg_init_connect"
    /\ UNCHANGED <<workVars, ret, logged, session, cursor, admin, handle,
                   session_closes, cursor_closes, close_calls, exists, create_err,
                   conn_err>>

\* try: con = psycopg2.connect(database='postgres', ..., port=int(port), ...)
\* Neither ValueError nor OperationalError is a ProgrammingError.
pg_init_admin ==
    /\ pc = "pg_init_admin"
    /\ \E o \in {"ok", "OperationalError"} :
          LET e == IF args.port_ok THEN o ELSE "ValueError"
          IN  IF e = "ok"
              THEN /\ admin' = "open"
                   /\ pc' = "pg_init_create"
                   /\ UNCHANGED <<ret, create_err>>
              ELSE /\ create_err' = e
                   /\ ret' = Raise(e)
                   /\ pc' = "failed"
                   /\ admin' = admin
    /\ UNCHANGED <<workVars, op, logged, engine, session, cursor, handle,
                   session_closes, cursor_closes, close_calls, exists, conn_err,
                   args>>

\* except psycopg2.ProgrammingError: pass
create_swallows(e) == e \in ProgrammingErrors

\* cur.execute('CREATE DATABASE ' + database); con.commit(); cur.close();
\* con.close() / except psycopg2.ProgrammingError: pass
pg_init_create ==
    /\ pc = "pg_init_create"
    /\ \E e \in CreateOutcomes :
          /\ create_err' = e
          /\ IF e = "ok"
             THEN /\ exists' = TRUE
                  /\ admin' = "closed"
                  /\ pc' = "pg_init_connect"
                  /\ ret' = ret
             ELSE IF create_swallows(e)
             THEN /\ pc' = "pg_init_connect"
                  /\ UNCHANGED <<exists, admin, ret>>
             ELSE /\ ret' = Raise(e)
                  /\ pc' = "failed"
                  /\ UNCHANGED <<exists, admin>>
    /\ UNCHANGED <<workVars, op, logged, engine, session, cursor, handle,
                   session_closes, cursor_closes, close_calls, conn_err, args>>

\* self.connection = psycopg2.connect(database=database, ...)
\* self.cursor = self.connection.cursor()
pg_init_connect ==
    /\ pc = "pg_init_connect"
    /\ \E o \in ConnectOutcomes :
          LET e == IF args.port_ok THEN o ELSE "ValueError"
          IN  /\ conn_err' = e
              /\ IF e = "ok"
                 THEN /\ session' = "open"
                      /\ cursor' = "open"
                      /\ handle' = "returned"
                      /\ ret' = Return("handle")
                      /\ pc' = "opened"
                 ELSE /\ ret' = Raise(e)
                      /\ pc' = "failed"
                      /\ UNCHANGED <<session, cursor, handle>>
    /\ UNCHANGED <<workVars, op, logged, engine, admin, session_closes,
                   cursor_closes, close_calls, exists, create_err, args>>

\* __enter__ of either class: return self
handle_enter ==
    /\ pc = "opened"
    /\ pc' = "in_with"
    /\ UNCHANGED <<workVars, op, ret, logged, hVars>>

\* PGConnCM.__exit__: self.connection.close(), whether the body of the with
\* statement ended normally or by an exception; a cursor of a closed
\* connection is closed.
pg_exit ==
    /\ pc = "in_with"
    /\ engine = "pg"
    /\ \E r \in {Return("None"), Raise("BodyError")} : ret' = r
    /\ session' = "closed"
    /\ cursor' = "closed"
    /\ session_closes' = session_closes + (IF session = "open" THEN 1 ELSE 0)
    /\ cursor_closes' = cursor_closes + (IF cursor = "open" THEN 1 ELSE 0)
    /\ op' = "__exit__"
    /\ pc' = "left"
    /\ UNCHANGED <<workVars, logged, engine, admin, handle, close_calls, exists,
                   create_err, conn_err, args>>

\* MysqlConnCM(databaseName, usr, password, mysql_host_ip, prt): the connect
\* and the cursor() in a try that prints a MySQLdb.Error and goes on.
mysql_init ==
    /\ pc = "unopened"
    /\ engine' = "mysql"
    /\ op' = "MysqlConnCM"
    /\ \E p \in BOOLEAN, o \in {"ok", "MySQLdb.Error"} :
          LET e == IF p THEN o ELSE "ValueError"
          IN  /\ args' = [create |-> FALSE, port_ok |-> p]
              /\ conn_err' = e
              /\ IF e = "ok"
                 THEN /\ session' = "open"
                      /\ cursor' = "open"
                      /\ handle' = "returned"
                      /\ ret' = Return("handle")
                      /\ logged' = logged
                      /\ pc' = "opened"
                 ELSE IF e = "MySQLdb.Error"
                 THEN /\ logged' = Append(logged, <<"print", e>>)
                      /\ handle' = "returned"
                      /\ ret' = Return("handle")
                      /\ pc' = "opened"
                      /\ UNCHANGED <<session, cursor>>
                 ELSE /\ ret' = Raise(e)
                      /\ pc' = "failed"
                      /\ UNCHANGED <<session, cursor, handle, logged>>
    /\ UNCHANGED <<workVars, admin, session_closes, cursor_closes, close_calls,
                   exists, create_err>>

\* self.conn.close(), the body of MysqlConnCM.close and of
\* MysqlConnCM.__exit__: conn is the cursor, and closing a closed cursor does
\* nothing; on a handle whose connect failed the attribute does not exist
\* and the call raises AttributeError.
mysql_conn_close ==
    IF cursor = "unset"
    THEN UNCHANGED <<cursor, cursor_closes>>
    ELSE /\ cursor' = "closed"
         /\ cursor_closes' = cursor_closes + (IF cursor = "open" THEN 1 ELSE 0)

\* MysqlConnCM.close
mysql_close ==
    /\ pc \in {"opened", "in_with", "left"}
    /\ engine = "mysql"
    /\ close_calls < MaxCloses
    /\ close_calls' = close_calls + 1
    /\ mysql_conn_close
    /\ ret' = IF cursor = "unset" THEN Raise("AttributeError") ELSE Return("None")
    /\ op' = "close"
    /\ UNCHANGED <<workVars, pc, logged, engine, session, admin, handle,
                   session_closes, exists, create_err, conn_err, args>>

\* MysqlConnCM.__exit__, whether the body of the with statement ended
\* normally or by an exception.
mysql_exit ==
    /\ pc = "in_with"
    /\ engine = "mysql"
    /\ mysql_conn_close
    /\ \E r \in {Return("None"), Raise("BodyError")} :
          ret' = IF cursor = "unset" THEN Raise("AttributeError") ELSE r
    /\ op' = "__exit__"
    /\ pc' = "left"
    /\ UNCHANGED <<workVars, logged, engine, session, admin, handle,
                   session_closes, close_calls, exists, create_err, conn_err, args>>

\* close() on a PGConnCM: the class defines no such method.
pg_close ==
    /\ pc \in {"opened", "in_with", "left"}
    /\ engine = "pg"
    /\ close_calls < MaxCloses
    /\ close_calls' = close_calls + 1
    /\ ret' = Raise("AttributeError")
    /\ op' = "close"
    /\ UNCHANGED <<workVars, pc, logged, engine, session, cursor, admin, handle,
                   session_closes, cursor_closes, exists, create_err, conn_err,
                   args>>

\* No handle yet; the target database exists or not.
InitOpen ==
    /\ db = {}
    /\ txn = {}
    /\ aborted = FALSE
    /\ pc = "unopened"
    /\ op = "none"
    /\ Q = <<>>
    /\ i = 1
    /\ succ_exec = 0
    /\ src = <<>>
    /\ chunk_size = 1
    /\ num_records = <<>>
    /\ values = <<>>
    /\ valpos = <<>>
    /\ caller = "top"
    /\ ret = NoRet
    /\ logged = <<>>
    /\ db0 = {}
    /\ attempted = <<>>
    /\ committed = {}
    /\ commits = 0
    /\ rollbacks = 0
    /\ yielded = <<>>
    /\ rows = <<>>
    /\ total_count = 0
    /\ insert_vals = <<>>
    /\ insert_queue = <<>>
    /\ gen = NoGen
    /\ fmt_rows = <<>>
    /\ fmt_text = <<>>
    /\ engine = "none"
    /\ session = "unset"
    /\ cursor = "unset"
    /\ admin = "unset"
    /\ handle = "none"
    /\ session_closes = 0
    /\ cursor_closes = 0
    /\ close_calls = 0
    /\ exists \in BOOLEAN
    /\ create_err = "none"
    /\ conn_err = "none"
    /\ args = [create |-> FALSE, port_ok |-> TRUE]

NextOpen ==
    \/ pg_init_call
    \/ pg_init_admin
    \/ pg_init_create
    \/ pg_init_connect
    \/ handle_enter
    \/ pg_exit
    \/ mysql_init
    \/ mysql_close
    \/ mysql_exit
    \/ pg_close

SpecOpen == InitOpen /\ [][NextOpen]_vars


\* ------------------------------------------- select_generator, step by step
\* select_generator is a generator function (its body holds a yield), so
\* calling it runs none of its body: the body starts at the first next().
\* gen is the generator object: st is "created" (body not started),
\* "running" (suspended at the yield) or "ended"; the other fields are the
\* body's local data and the history of what it did.

\* Everything the generator leaves alone.
selOther == <<pc, op, Q, i, succ_exec, bicVars, biVars, ret, logged, hist, myVars,
              hVars, fmtVars>>

\* The select statements handed to select_generator.
Selects == [eff : {0}, kind : Kinds]

\* What the session shows to a select: the committed effects and those of
\* the handle's own open transaction (on MySQL an effect is a statement's
\* list of rows).
Visible ==
    IF engine = "pg" THEN db \cup Effects(txn)
    ELSE UNION {{st[p] : p \in 1..Len(st)} : st \in db \cup Effects(txn)}

\* fetchall(): the rows in result order.
RECURSIVE Rows(_)
Rows(S) ==
    IF S = {} THEN <<>>
    ELSE LET m == CHOOSE x \in S : \A y \in S : x <= y
         IN  <<m>> \o Rows(S \ {m})

\* cursor.execute(stmt) of a select fails: on PG as any execute does, on
\* MySQL when the server rejects the statement.
SelectFails(e, q) == IF e = "pg" THEN ExecuteFails(q) ELSE q.kind # "ok"

\* The exception it raises.
SelectError(e, q) == IF e = "pg" THEN ErrorOf(q) ELSE "MySQLdb.Error"

\* An except clause that catches ProgrammingError alone.
select_except_catches_programming_only(e, err) == err = "ProgrammingError"

\* pg.py: except Exception; mysql.py: except MySQLdb.Error
select_except_catches(e, err) == IF e = "pg" THEN TRUE ELSE err = "MySQLdb.Error"

\* A call that runs the try block at once: execute and fetchall at call time.
select_generator_call_eager ==
    /\ pc = "idle"
    /\ gen.st = "none"
    /\ \E q \in Selects :
          gen' = [NoGen EXCEPT !.st = "created", !.q = q, !.at_call = Visible,
                               !.fails_at_call = SelectFails(engine, q),
                               !.execs = 1, !.at_exec = Visible,
                               !.failed = SelectFails(engine, q),
                               !.data = IF SelectFails(engine, q) THEN <<>> ELSE Rows(Visible)]
    /\ yielded' = <<>>
    /\ UNCHANGED <<conn, selOther>>

\* h.select_generator(stmt): the generator object is created and returned;
\* nothing is executed.
select_generator_call ==
    /\ pc = "idle"
    /\ gen.st = "none"
    /\ \E q \in Selects :
          gen' = [NoGen EXCEPT !.st = "created", !.q = q, !.at_call = Visible,
                               !.fails_at_call = SelectFails(engine, q)]
    /\ yielded' = <<>>
    /\ UNCHANGED <<conn, selOther>>

\* The first next(): data = []; try: execute, fetchall, and the loop's first
\* yield; an exception the except clause catches is logged and the body ends.
select_generator_first ==
    /\ pc = "idle"
    /\ gen.st = "created"
    /\ IF SelectFails(engine, gen.q)
       THEN LET err == SelectError(engine, gen.q) IN
            /\ aborted' = (engine = "pg")
            /\ gen' = [gen EXCEPT !.st = "ended", !.execs = gen.execs + 1,
                                  !.at_exec = Visible, !.failed = TRUE,
                                  !.logged = IF select_except_catches(engine, err)
                                             THEN err ELSE "none",
                                  !.raised = IF select_except_catches(engine, err)
                                             THEN "none" ELSE err]
            /\ yielded' = yielded
       ELSE LET data == Rows(Visible) IN
            /\ aborted' = aborted
            /\ gen' = [gen EXCEPT !.st = IF data = <<>> THEN "ended" ELSE "running",
                                  !.execs = gen.execs + 1,
                                  !.at_exec = Visible, !.data = data]
            /\ yielded' = IF data = <<>> THEN <<>> ELSE <<data[1]>>
    /\ UNCHANGED <<db, txn, selOther>>

\* A later next(): the loop over data goes on, or the body ends.
select_generator_next ==
    /\ pc = "idle"
    /\ gen.st = "running"
    /\ IF Len(yielded) < Len(gen.data)
       THEN /\ yielded' = Append(yielded, gen.data[Len(yielded) + 1])
            /\ gen' = gen
       ELSE /\ yielded' = yielded
            /\ gen' = [gen EXCEPT !.st = "ended"]
    /\ UNCHANGED <<conn, selOther>>

\* The operations the caller runs on the handle while it holds the
\* generator, with lists of up to MaxBetween statements or rows.
between_exec_query_list ==
    /\ engine = "pg"
    /\ exec_query_list_call
    /\ Len(Q') <= MaxBetween

between_bulk_insert ==
    /\ engine = "pg"
    /\ bulk_insert_call
    /\ Len(values') <= MaxBetween

between_select ==
    /\ engine = "pg"
    /\ select_generator

between_mysql_exec_query_list ==
    /\ engine = "mysql"
    /\ mysql_exec_query_list_call
    /\ Len(Q') <= MaxBetween

InitSel == InitCall /\ \E e \in {"pg", "mysql"} : InitHandle(e)

NextSel ==
    \/ select_generator_call
    \/ select_generator_first
    \/ select_generator_next
    \/ between_exec_query_list
    \/ exec_query_list_execute
    \/ exec_query_list_commit
    \/ exec_query_list_except
    \/ exec_query_list_return
    \/ between_bulk_insert
    \/ bulk_insert_start
    \/ bulk_insert_execute
    \/ bulk_insert_commit
    \/ bulk_insert_except
    \/ between_select
    \/ between_mysql_exec_query_list
    \/ mysql_exec_query_list_execute
    \/ mysql_exec_query_list_commit
    \/ caller_continue

SpecSel == InitSel /\ [][NextSel]_vars


\* ============================================================ properties
\* Positions of the statements whose execute raised nothing.
Succeeded == {p \in 1..Len(attempted) : attempted[p].ok}

InOrderOnce == \A p \in 1..Len(attempted) : attempted[p].pos = p

LastLog == logged[Len(logged)]

\* C1: exec_query_list attempts each statement of Q exactly once and in
\* order; a valid statement executes successfully whatever happened to the
\* one before it; at most one statement is ever pending, each success is
\* committed on its own and each failure rolled back; when the call ends the
\* database holds what it held before plus exactly the effects of the
\* statements that executed successfully, and the report is
\* (number of successful statements, len(Q)).
ExecQueryListContinuesPastFailure ==
    (op = "exec_query_list") =>
        /\ InOrderOnce
        /\ Len(attempted) <= Len(Q)
        /\ Cardinality(txn) <= 1
        /\ \A p \in Succeeded : Q[p].kind = "ok"
        /\ \A p \in 2..Len(attempted) : Q[p].kind = "ok" => p \in Succeeded
        /\ (pc = "done") =>
              /\ Len(attempted) = Len(Q)
              /\ ret = Return("None")
              /\ db = db0 \cup {Q[p].eff : p \in Succeeded}
              /\ committed = Succeeded
              /\ commits = Cardinality(Succeeded)
              /\ rollbacks = Len(Q) - Cardinality(Succeeded)
              /\ txn = {}
              /\ LastLog = <<"info", Cardinality(Succeeded), Len(Q)>>

\* [A valid, B invalid, C valid] on an empty database: A and C applied, 2 of 3.
ExecQueryListWitness ==
    /\ op = "exec_query_list"
    /\ pc = "done"
    /\ Len(Q) = 3
    /\ Q[1].kind = "ok"
    /\ Q[2].kind # "ok"
    /\ Q[3].kind = "ok"
    /\ Q[1].eff # Q[3].eff
    /\ db0 = {}
    /\ db = {Q[1].eff, Q[3].eff}
    /\ LastLog = <<"info", 2, 3>>

\* C2: exec_query_list_rollback_on_error executes the statements of Q in
\* order with no commit in between; nothing is executed after a failure; a
\* failure ends the call with one rollback, the error raised to the caller
\* and the database as it was before the call; the one commit happens only
\* after every statement of Q has executed successfully.
RollbackOnErrorAllOrNothing ==
    (op = "exec_query_list_rollback_on_error") =>
        /\ InOrderOnce
        /\ Len(attempted) <= Len(Q)
        /\ \A p \in 1..(Len(attempted) - 1) : attempted[p].ok
        /\ commits <= 1
        /\ (commits = 1) => (pc = "done" /\ Succeeded = 1..Len(Q))
        /\ (pc # "done") => (db = db0 /\ committed = {})
        /\ (pc = "done") =>
              \/ /\ ret.kind = "raise"
                 /\ ret.val \in Kinds \ {"ok"}
                 /\ attempted # <<>>
                 /\ ~attempted[Len(attempted)].ok
                 /\ Q[Len(attempted)].kind # "ok" => ret.val = Q[Len(attempted)].kind
                 /\ db = db0
                 /\ committed = {}
                 /\ commits = 0
                 /\ rollbacks = 1
                 /\ txn = {}
              \/ /\ ret = Return("None")
                 /\ Succeeded = 1..Len(Q)
                 /\ db = db0 \cup {Q[p].eff : p \in 1..Len(Q)}
                 /\ committed = 1..Len(Q)
                 /\ commits = 1
                 /\ rollbacks = 0
                 /\ txn = {}

\* [A valid, B invalid, C valid]: C is never executed, A is not visible and
\* the caller gets B's error.
RollbackOnErrorWitness ==
    /\ op = "exec_query_list_rollback_on_error"
    /\ pc = "done"
    /\ Len(Q) = 3
    /\ Q[1].kind = "ok"
    /\ Q[2].kind = "ProgrammingError"
    /\ Q[3].kind = "ok"
    /\ Len(attempted) = 2
    /\ attempted[1].ok
    /\ ret = Raise("ProgrammingError")
    /\ Q[1].eff \notin db

\* C3: a bulk_insert of a non-empty batch ends in one of two ways: the
\* INSERT succeeded, all rows of the batch are committed and the call
\* returns len(values); or it failed, the transaction was rolled back, no
\* row of the batch was committed and the error is raised to the caller.
BulkInsertAllOrError ==
    (op = "bulk_insert" /\ pc = "done" /\ values # <<>>) =>
        \/ /\ ret = Return(Len(values))
           /\ committed = 1..Len(values)
           /\ db = db0 \cup {values[p].eff : p \in 1..Len(values)}
           /\ commits = 1
           /\ rollbacks = 0
           /\ txn = {}
        \/ /\ ret.kind = "raise"
           /\ ret.val \in Kinds \ {"ok"}
           /\ committed = {}
           /\ db = db0
           /\ commits = 0
           /\ rollbacks = 1
           /\ txn = {}
           /\ ~aborted

\* A batch whose second row the driver rejects: nothing committed, error raised.
BulkInsertWitness ==
    /\ op = "bulk_insert"
    /\ pc = "done"
    /\ Len(values) = 2
    /\ values[1].kind = "ok"
    /\ values[2].kind # "ok"
    /\ ret.kind = "raise"
    /\ rollbacks = 1
    /\ values[1].eff \notin db

\* C4: when bulk_insert has failed on a chunk, bulk_insert_chunks still
\* attempts every later chunk and returns the number of rows committed.
ChunksContinueAfterFailedChunk ==
    (/\ op = "bulk_insert_chunks"
     /\ pc = "done"
     /\ \E p \in 1..Len(attempted) : ~attempted[p].ok) =>
        /\ ret.kind = "return"
        /\ ret.val = Cardinality(committed)
        /\ {attempted[p].pos : p \in 1..Len(attempted)} = 1..Len(src)

ChunkPositions(k) ==
    LET c == chunk_at(Positions(src), chunk_size, k)
    IN  {c[p] : p \in 1..Len(c)}

\* C5: at every point of a bulk_insert_chunks call the committed rows are
\* rows that were offered and every chunk is committed as a whole or not at
\* all; a bulk_insert has committed all of its batch or nothing; a value
\* returned by either call is the number of rows the call committed.
BulkWriteResult ==
    /\ (op = "bulk_insert_chunks") =>
          /\ committed \subseteq 1..Len(src)
          /\ Cardinality(committed) <= Len(src)
          /\ \A k \in 0..(chunk_count(src, chunk_size) - 1) :
                \/ ChunkPositions(k) \subseteq committed
                \/ ChunkPositions(k) \cap committed = {}
          /\ (pc = "done" /\ ret.kind = "return") => ret.val = Cardinality(committed)
    /\ (op = "bulk_insert") =>
          /\ committed \in {{}, 1..Len(values)}
          /\ (pc = "done" /\ ret.kind = "return") => ret.val = Cardinality(committed)

\* Three rows in chunks of one, all committed, 3 returned.
BulkWriteResultWitness ==
    /\ op = "bulk_insert_chunks"
    /\ pc = "done"
    /\ Len(src) = 3
    /\ chunk_size = 1
    /\ ret = Return(3)
    /\ committed = {1, 2, 3}

\* C8: bulk_insert_chunks called with no rows calls bulk_insert zero times,
\* executes nothing and returns 0.
NoRowsReturnsZero ==
    (op = "bulk_insert_chunks" /\ pc = "done" /\ src = <<>>) =>
        /\ ret = Return(0)
        /\ attempted = <<>>
        /\ i = 0


Max(a, b) == IF a > b THEN a ELSE b

\* C6: for a non-empty sequence S and a chunk size c > 0, the chunks in the
\* order produced concatenate to S, every chunk but the last has exactly c
\* rows, and there are max(1, floor(len(S)/c)) chunks.
ChunksPartitionSrc ==
    (pc = "chunks_end" /\ src # <<>>) =>
        /\ Concat(yielded) = src
        /\ \A k \in 1..(Len(yielded) - 1) : Len(yielded[k]) = chunk_size
        /\ Len(yielded) = Max(1, Len(src) \div chunk_size)

\* Five rows in chunks of two: two chunks, the first of two rows.
ChunksPartitionWitness ==
    /\ pc = "chunks_end"
    /\ Len(src) = 5
    /\ chunk_size = 2
    /\ Len(yielded) = 2
    /\ Len(yielded[1]) = 2

\* C7: every chunk the chunker produces has at most chunk_size rows.
ChunkWithinChunkSize ==
    \A k \in 1..Len(yielded) : Len(yielded[k]) <= chunk_size

MysqlExecQueryList ==
    (op \in {"mysql_exec_query_list", "mysql_bulk_insert"} /\ pc # "my_rows") =>
        /\ InOrderOnce
        /\ Len(attempted) <= Len(Q)
        /\ Succeeded = {p \in 1..Len(attempted) : ~MyExecuteFails(Q[p])}
        /\ (pc # "done") => (commits = 0 /\ db = db0)
        /\ (pc = "done") =>
              /\ Len(attempted) = Len(Q)
              /\ commits = 1
              /\ ret = Return("None")
              /\ db = db0 \cup {Q[p] : p \in Succeeded}
              /\ committed = Succeeded
              /\ txn = {}

\* [A valid, B invalid, C valid]: all three attempted, A and C committed.
MysqlExecQueryListWitness ==
    /\ op = "mysql_exec_query_list"
    /\ pc = "done"
    /\ Len(Q) = 3
    /\ ~MyExecuteFails(Q[1])
    /\ MyExecuteFails(Q[2])
    /\ ~MyExecuteFails(Q[3])
    /\ Q[1] # Q[3]
    /\ db = {Q[1], Q[3]}
    /\ commits = 1


\* C11: when the driver's connect to the target database fails, the
\* constructor raises and returns no handle; a handle that was returned and
\* has not been closed owns an open session and an open cursor.
OpenFailsOnConnectError ==
    /\ (conn_err \in {"OperationalError", "MySQLdb.Error"}) =>
          /\ pc = "failed"
          /\ ret = Raise(conn_err)
          /\ handle = "none"
    /\ (handle = "returned" /\ pc = "opened" /\ close_calls = 0) =>
          /\ session = "open"
          /\ cursor = "open"

\* C12: once the with-scope of a successfully opened handle has been left,
\* or close() has been called on it, its session and its cursor are both
\* released, and over the handle's lifetime each is released exactly once.
ReleasedExactlyOnce ==
    /\ session_closes <= 1
    /\ cursor_closes <= 1
    /\ (handle = "returned" /\ conn_err = "ok" /\ (pc = "left" \/ close_calls > 0)) =>
          /\ session = "closed"
          /\ cursor = "closed"
          /\ session_closes = 1
          /\ cursor_closes = 1

\* C13: an error of the create-database step of PGConnCM.__init__ other
\* than "database already exists" is raised to the caller: construction
\* does not go on to connect to the target database.
CreateSwallowsOnlyAlreadyExists ==
    (engine = "pg" /\ create_err \notin {"none", "ok", "DuplicateDatabase"}) =>
        /\ pc = "failed"
        /\ ret = Raise(create_err)
        /\ handle = "none"


\* The operations of PGConnCM that write.
Writers == {"exec_query_list", "exec_query_list_rollback_on_error", "bulk_insert"}

\* C17: whenever exec_query_list, exec_query_list_rollback_on_error or
\* bulk_insert has returned or raised on a PG handle, no uncommitted write
\* is pending on the connection, and when the operation executed anything
\* its last act on the connection was a commit or a rollback, so that no
\* failed command is left open either; after any sequence of operations.
NoPendingWriteAfterOperation ==
    (pc = "done" /\ op \in Writers) =>
        /\ txn = {}
        /\ attempted # <<>> => (~aborted /\ commits + rollbacks >= 1)
        /\ \A k \in 1..Len(attempted) :
              attempted[k].ok =>
                 \/ attempted[k].pos \in committed
                 \/ rollbacks >= 1

NoPendingWriteWitness ==
    /\ pc = "done"
    /\ op = "exec_query_list_rollback_on_error"
    /\ ret.kind = "raise"
    /\ Len(attempted) >= 2
    /\ attempted[1].ok
    /\ rollbacks = 1
    /\ txn = {}
    /\ db # {}

\* C18: a failed select_generator leaves the PG handle usable: a list of
\* valid statements handed to exec_query_list or
\* exec_query_list_rollback_on_error, and a valid batch handed to
\* bulk_insert, is executed without error and committed, as on a fresh
\* handle, whatever the caller did on the handle before.
ValidStatementsCommitAfterFailedSelect ==
    /\ (pc = "done" /\ op \in {"exec_query_list", "exec_query_list_rollback_on_error"}
          /\ \A k \in 1..Len(Q) : Q[k] \in Valid) =>
             /\ Len(attempted) = Len(Q)
             /\ \A k \in 1..Len(Q) : attempted[k].ok /\ Q[k].eff \in db
    /\ (pc = "done" /\ op = "bulk_insert" /\ values # <<>>
          /\ \A k \in 1..Len(values) : values[k] \in Valid) =>
             /\ ret = Return(Len(values))
             /\ \A k \in 1..Len(values) : values[k].eff \in db


\* C14: select_generator never raises on an execution error: on both
\* engines, when the execute of the select fails, the error is logged, the
\* generator yields no row and no exception reaches the caller; when it
\* succeeds the generator yields the fetched rows, in result order, and
\* exactly those once it has ended.
SelectNeverRaises ==
    /\ gen.raised = "none"
    /\ (gen.st = "ended" /\ gen.failed) =>
          /\ gen.logged # "none"
          /\ yielded = <<>>
    /\ (gen.st \in {"running", "ended"} /\ ~gen.failed) =>
          /\ gen.logged = "none"
          /\ gen.data = Rows(gen.at_exec)
          /\ Len(yielded) <= Len(gen.data)
          /\ yielded = SubSeq(gen.data, 1, Len(yielded))
          /\ gen.st = "ended" => yielded = gen.data

SelectNeverRaisesWitness ==
    /\ engine = "pg"
    /\ gen.st = "ended"
    /\ gen.failed
    /\ gen.q.kind = "Exception"
    /\ gen.logged = "Exception"
    /\ gen.raised = "none"
    /\ yielded = <<>>
    /\ db # {}

\* The rows a select executed when select_generator was called would yield.
RowsAtCall == IF gen.fails_at_call THEN <<>> ELSE Rows(gen.at_call)

\* C15 as stated: the statement is executed when select_generator is
\* called, so a generator that has ended has yielded the rows of that
\* execution, whatever the caller ran on the handle between the call and
\* the first iteration.
SelectExecutesAtCallTime ==
    (gen.st = "ended" /\ gen.raised = "none") => yielded = RowsAtCall

\* The rows the select executed at the first iteration yields.
RowsAtFirstIteration == IF gen.failed THEN <<>> ELSE Rows(gen.at_exec)

\* C15 amended: calling select_generator executes nothing; the statement
\* is executed once, at the first iteration, and all its rows are fetched
\* then: the rows yielded are those visible at the first iteration, and no
\* operation run on the handle after it changes them.
SelectExecutesAtFirstIteration ==
    /\ gen.st = "created" => (gen.execs = 0 /\ yielded = <<>>)
    /\ gen.st \in {"running", "ended"} => gen.execs = 1
    /\ (gen.st = "running") =>
          /\ Len(yielded) <= Len(RowsAtFirstIteration)
          /\ yielded = SubSeq(RowsAtFirstIteration, 1, Len(yielded))
    /\ (gen.st = "ended" /\ gen.raised = "none") => yielded = RowsAtFirstIteration

SelectExecutesAtFirstIterationWitness ==
    /\ gen.st = "ended"
    /\ ~gen.failed
    /\ gen.execs = 1
    /\ yielded # <<>>
    /\ yielded = Rows(gen.at_exec)
    /\ gen.at_call # gen.at_exec
    /\ Visible # gen.at_exec
    /\ pc = "idle"


\* The text a field has in the statement: the replace of line 78 applied to
\* the field's own quoted text.
FinalField(j) == replace(format_field(j), QuotedNone, NULL)

\* The VALUES text of rows whose fields have the texts tt[r][c].
ValuesOf(tt) ==
    join(<<",">>, [r \in 1..Len(tt) |-> <<"(">> \o join(<<",">>, tt[r]) \o <<")">>])

\* What C16 asks of a field: NULL for None, the field's text otherwise.
NullForNone(j) == IF j = None THEN NULL ELSE FinalField(j)

\* C16: in the VALUES text of a statement MySQL bulk_insert dispatches,
\* every field whose value is None stands as the keyword NULL, not as
\* 'None' and not as a quoted empty string: the text is, row by row and
\* field by field, NULL for a None and the field's own text otherwise.
NoneRendersAsNull ==
    pc = "fmt_done" => fmt_text = ValuesOf([r \in 1..Len(fmt_rows) |->
                                [c \in 1..Len(fmt_rows[r]) |-> NullForNone(fmt_rows[r][c])]])

NoneRendersAsNullWitness ==
    /\ pc = "fmt_done"
    /\ Len(fmt_rows) = 2
    /\ fmt_rows[1] = <<Str(<<"a">>), None>>
    /\ fmt_rows[2] = <<None>>
    /\ fmt_text = <<"(", "'", "a", "'", ",">> \o NULL \o <<")", ",", "(">> \o NULL \o <<")">>

\* C19: a field stands as NULL in the VALUES text only if its value is
\* None: the empty string, the text None and numbers are not turned into
\* NULL.
NullOnlyForNone ==
    pc = "fmt_done" =>
        /\ fmt_text = ValuesOf([r \in 1..Len(fmt_rows) |->
                                   [c \in 1..Len(fmt_rows[r]) |-> FinalField(fmt_rows[r][c])]])
        /\ \A r \in 1..Len(fmt_rows) : \A c \in 1..Len(fmt_rows[r]) :
              FinalField(fmt_rows[r][c]) = NULL => fmt_rows[r][c] = None

=============================================================================
